---- MODULE Spec2Model ----
(***************************************************************************)
(* Model of the interaction-encoding protocol of temporal-template-rs:     *)
(* the key registry and the token encoder of crates/temporal-template      *)
(* (temp.rs), the decoder described by the design document, and the        *)
(* dispatcher of crates/temporal_sdk_helpers (lib.rs).                     *)
(*                                                                         *)
(* A Rust String is a sequence of one-character strings, so that joining,  *)
(* splitting and delimiter collisions are computed and not assumed.        *)
(* Option<T> is a sequence of length 0 (None) or 1 (Some(x)).              *)
(***************************************************************************)
EXTENDS Integers, Sequences, FiniteSets, TLC

\* ------------------------------------------------------------------------
\* Bounds of the model
\* ------------------------------------------------------------------------

\* longest payload list (args / input / query_args) that is enumerated
MaxArgs == 2

\* most get_value calls made on one map
MaxLookups == 3

\* attempts of the activity the engine makes before it resolves it as failed
MaxAttempts == 2

\* signal requests sent to the engine while the workflow execution is open
MaxSignals == 2

\* ------------------------------------------------------------------------
\* Option<T>
\* ------------------------------------------------------------------------

None == << >>

Some(x) == << x >>

\* Option::map_or("".into(), |some| some.clone())
map_or_empty(opt) == IF opt = None THEN << >> ELSE opt[1]

\* ------------------------------------------------------------------------
\* Delimiters and the key registry (temp.rs 6-35)
\* ------------------------------------------------------------------------

SLACK_INFO_DELIMITER == ","

TEMPORAL_KEY_DELIMITER == ":"

\* KeysToTemporalAction::iter(): the variants in declaration order; Display
\* of a key is its one-character name
KeysToTemporalAction == << "E", "W", "N", "T", "Y", "R", "S", "Q", "U" >>

KeySet == { KeysToTemporalAction[i] : i \in 1..Len(KeysToTemporalAction) }

\* format!("{}{}{}", self, TEMPORAL_KEY_DELIMITER, value)
to_kv(key, value) == << key, TEMPORAL_KEY_DELIMITER >> \o value

\* ------------------------------------------------------------------------
\* Strings used as field values
\* ------------------------------------------------------------------------

s_ns == << "n", "s" >>

s_default == << "d", "e", "f", "a", "u", "l", "t" >>

s_tq == << "t", "q" >>

s_tq1 == << "t", "q", "1" >>

s_wf1 == << "w", "f", "1" >>

s_wf123 == << "w", "f", "-", "1", "2", "3" >>

s_Greet == << "G", "r", "e", "e", "t" >>

s_Sum == << "S", "u", "m" >>

s_run9 == << "r", "u", "n", "-", "9" >>

s_approve == << "a", "p", "p", "r", "o", "v", "e", "-", "s", "i", "g", "n", "a", "l" >>

s_status == << "s", "t", "a", "t", "u", "s" >>

s_id == << "i", "d" >>

\* values that break the closed precondition of the encoder
s_comma == << "a", ",", "E", ":", "b" >>

s_colon == << "x", ":", "y" >>

\* const SIGNAL_NAME (main.rs 145)
SIGNAL_NAME == << "t", "e", "s", "t", "-", "s", "i", "g", "n", "a", "l" >>

\* ------------------------------------------------------------------------
\* serde_json::Value and payload lists
\* ------------------------------------------------------------------------

\* a JSON number and a JSON string, as <<kind, text>>
JsonValues == { << "Number", << "1" >> >>, << "String", << "a" >> >> }

\* serde_json::Value::to_string: a string is printed inside double quotes
json_to_string(v) ==
    IF v[1] = "String" THEN << "\"" >> \o v[2] \o << "\"" >> ELSE v[2]

SeqsUpTo(S, n) == UNION { [1..k -> S] : k \in 0..n }

\* Option<Vec<serde_json::Value>>
PayloadOpts == { None } \cup { Some(l) : l \in SeqsUpTo(JsonValues, MaxArgs) }

OptStrings == { None, Some(s_id) }

\* ------------------------------------------------------------------------
\* TemporalInteraction of temp.rs (99-106, 168-211)
\* ------------------------------------------------------------------------

ExecuteTemporalWorkflow ==
    [ type : { "Execute" },
      namespace : { s_ns, s_comma },
      task_queue : { s_tq, s_tq1 },
      workflow_id : { s_wf1, s_colon },
      workflow_type : { s_Greet, s_Sum },
      args : { None } ]

SignalTemporal ==
    [ type : { "Signal" },
      namespace : { s_default, s_comma },
      task_queue : { s_tq1 },
      workflow_id : { None, Some(s_wf123), Some(s_colon) },
      run_id : { None, Some(s_run9) },
      signal_name : { s_approve, SIGNAL_NAME },
      input : { None },
      identity : OptStrings,
      request_id : OptStrings,
      control : OptStrings ]

QueryTemporal ==
    [ type : { "Query" },
      namespace : { s_default, s_comma },
      task_queue : { s_tq, s_tq1 },
      workflow_id : { None, Some(s_wf123) },
      run_id : { None, Some(s_run9) },
      query_type : { s_status },
      query_args : { None } ]

\* the descriptors a caller constructs (payload still absent, as with
\* ..Default::default()); add_data_args supplies every payload
TemporalInteraction == ExecuteTemporalWorkflow \cup SignalTemporal \cup QueryTemporal

NoInteraction == [ type |-> "NoInteraction" ]

\* to_type_string naming the Execute variant as the helper crate's enum does
to_type_string_helper_names(d) ==
    CASE d.type = "Execute" -> << "E", "x", "e", "c", "u", "t", "e",
                                  "W", "o", "r", "k", "f", "l", "o", "w" >>
      [] d.type = "Signal" -> << "S", "i", "g", "n", "a", "l" >>
      [] d.type = "Query" -> << "Q", "u", "e", "r", "y" >>

\* TemporalInteraction::to_type_string: Display of the discriminant
to_type_string(d) ==
    CASE d.type = "Execute" -> << "E", "x", "e", "c", "u", "t", "e" >>
      [] d.type = "Signal" -> << "S", "i", "g", "n", "a", "l" >>
      [] d.type = "Query" -> << "Q", "u", "e", "r", "y" >>

\* TemporalInteraction::workflow_id
workflow_id(d) ==
    IF d.type = "Execute" THEN d.workflow_id ELSE map_or_empty(d.workflow_id)

\* TemporalInteraction::task_queue
task_queue(d) == d.task_queue

\* TemporalInteraction::namespace
namespace(d) == d.namespace

\* SignalTemporal::run_id, QueryTemporal::run_id
run_id(action) == map_or_empty(action.run_id)

\* QueryTemporal::query_args: the first argument's text, or ""
query_args(action) ==
    IF action.query_args = None THEN << >>
    ELSE IF action.query_args[1] = << >> THEN << >>
    ELSE json_to_string(action.query_args[1][1])

\* add_data_args appending the new arguments to an earlier payload
add_data_args_merging(d, args) ==
    LET merged(old) == IF old = None \/ args = None THEN args
                       ELSE Some(old[1] \o args[1])
    IN CASE d.type = "Execute" -> [ d EXCEPT !.args = merged(d.args) ]
         [] d.type = "Signal" -> [ d EXCEPT !.input = merged(d.input) ]
         [] d.type = "Query" -> [ d EXCEPT !.query_args = merged(d.query_args) ]

\* TemporalInteraction::add_data_args
add_data_args(d, args) ==
    CASE d.type = "Execute" -> [ d EXCEPT !.args = args ]
      [] d.type = "Signal" -> [ d EXCEPT !.input = args ]
      [] d.type = "Query" -> [ d EXCEPT !.query_args = args ]

\* ------------------------------------------------------------------------
\* The encoder (temp.rs 48-97)
\* ------------------------------------------------------------------------

\* the Execute arm with the values of N and T exchanged
ExecuteArm_swapped(d, key) ==
    CASE key = "W" -> << to_kv(key, workflow_id(d)) >>
      [] key = "N" -> << to_kv(key, task_queue(d)) >>
      [] key = "T" -> << to_kv(key, namespace(d)) >>
      [] key = "Y" -> << to_kv(key, d.workflow_type) >>
      [] OTHER -> << >>

\* the Execute arm: what the loop body pushes for one key
ExecuteArm(d, key) ==
    CASE key = "W" -> << to_kv(key, workflow_id(d)) >>
      [] key = "N" -> << to_kv(key, namespace(d)) >>
      [] key = "T" -> << to_kv(key, task_queue(d)) >>
      [] key = "Y" -> << to_kv(key, d.workflow_type) >>
      [] OTHER -> << >>

\* the Signal arm leaving out the R pair of an absent run_id
SignalArm_skips_absent(d, key) ==
    CASE key = "W" -> << to_kv(key, workflow_id(d)) >>
      [] key = "N" -> << to_kv(key, namespace(d)) >>
      [] key = "T" -> << to_kv(key, task_queue(d)) >>
      [] key = "R" -> IF d.run_id = None THEN << >> ELSE << to_kv(key, run_id(d)) >>
      [] key = "S" -> << to_kv(key, d.signal_name) >>
      [] OTHER -> << >>

\* the Signal arm: what the loop body pushes for one key
SignalArm(d, key) ==
    CASE key = "W" -> << to_kv(key, workflow_id(d)) >>
      [] key = "N" -> << to_kv(key, namespace(d)) >>
      [] key = "T" -> << to_kv(key, task_queue(d)) >>
      [] key = "R" -> << to_kv(key, run_id(d)) >>
      [] key = "S" -> << to_kv(key, d.signal_name) >>
      [] OTHER -> << >>

\* the Query arm: the value of the match expression for one key
QueryArmValue(d, key) ==
    CASE key = "W" -> << to_kv(key, workflow_id(d)) >>
      [] key = "N" -> << to_kv(key, namespace(d)) >>
      [] key = "T" -> << to_kv(key, task_queue(d)) >>
      [] key = "Q" -> << to_kv(key, d.query_type) >>
      [] key = "U" -> << to_kv(key, query_args(d)) >>
      [] OTHER -> << >>

\* the Query arm: the match expression is a statement ending in `;`, its
\* value is dropped and nothing is pushed
QueryArm(d, key) == SubSeq(QueryArmValue(d, key), 1, 0)

\* one iteration of `for key in KeysToTemporalAction::iter()`
LoopBody(d, key) ==
    CASE d.type = "Execute" -> ExecuteArm(d, key)
      [] d.type = "Signal" -> SignalArm(d, key)
      [] d.type = "Query" -> QueryArm(d, key)

RECURSIVE KeyLoop(_, _)
\* the pairs pushed by the iterations from the i-th key on
KeyLoop(d, i) ==
    IF i > Len(KeysToTemporalAction) THEN << >>
    ELSE LoopBody(d, KeysToTemporalAction[i]) \o KeyLoop(d, i + 1)

\* the text of the first element of a payload list, "" without one
first_arg_text(payload) ==
    IF payload = None THEN << >>
    ELSE IF payload[1] = << >> THEN << >>
    ELSE json_to_string(payload[1][1])

\* kv_pairs with the first payload value of Execute and Signal pushed as U
kv_pairs_with_payload(d) ==
    << to_kv("E", to_type_string(d)) >> \o KeyLoop(d, 1)
        \o ( CASE d.type = "Execute" -> << to_kv("U", first_arg_text(d.args)) >>
               [] d.type = "Signal" -> << to_kv("U", first_arg_text(d.input)) >>
               [] OTHER -> << >> )

\* kv_pairs when the loop is over: the E pair pushed first, then the loop's
kv_pairs(d) == << to_kv("E", to_type_string(d)) >> \o KeyLoop(d, 1)

RECURSIVE join(_, _)
\* [String]::join(sep)
join(pairs, sep) ==
    IF pairs = << >> THEN << >>
    ELSE IF Len(pairs) = 1 THEN pairs[1]
    ELSE pairs[1] \o << sep >> \o join(Tail(pairs), sep)

\* build_slack_info_string
build_slack_info_string(d) == join(kv_pairs(d), SLACK_INFO_DELIMITER)

\* TemporalInteraction::to_slack_string
to_slack_string(d) == build_slack_info_string(d)

\* ------------------------------------------------------------------------
\* The one-shot key lookup (temp.rs 37-45)
\* ------------------------------------------------------------------------

\* HashMap::remove's effect on the map
MapRemove(encoder_map, key) ==
    [ k \in (DOMAIN encoder_map) \ { key } |-> encoder_map[k] ]

\* get_value substituting "" for a key the map lacks (unwrap_or_default)
get_value_default(key, encoder_map) ==
    IF key \in DOMAIN encoder_map
    THEN [ ok |-> TRUE, value |-> encoder_map[key], missing |-> "",
           map |-> MapRemove(encoder_map, key) ]
    ELSE [ ok |-> TRUE, value |-> << >>, missing |-> "",
           map |-> encoder_map ]

\* get_value reading the entry without removing it (HashMap::get)
get_value_peek(key, encoder_map) ==
    IF key \in DOMAIN encoder_map
    THEN [ ok |-> TRUE, value |-> encoder_map[key], missing |-> "",
           map |-> encoder_map ]
    ELSE [ ok |-> FALSE, value |-> << >>, missing |-> key,
           map |-> encoder_map ]

\* KeysToTemporalAction::get_value: the entry is removed and returned, or
\* an error naming the key is returned and the map is left as it was
get_value(key, encoder_map) ==
    IF key \in DOMAIN encoder_map
    THEN [ ok |-> TRUE, value |-> encoder_map[key], missing |-> "",
           map |-> MapRemove(encoder_map, key) ]
    ELSE [ ok |-> FALSE, value |-> << >>, missing |-> key,
           map |-> encoder_map ]

\* ------------------------------------------------------------------------
\* The decoder, as the design document describes it
\* ------------------------------------------------------------------------

\* position of the first occurrence of c in s, 0 when there is none
IndexOf(s, c) ==
    IF \E i \in 1..Len(s) : s[i] = c
    THEN CHOOSE i \in 1..Len(s) : s[i] = c /\ \A j \in 1..(i - 1) : s[j] # c
    ELSE 0

RECURSIVE split(_, _)
\* step 1: split on every occurrence of the field delimiter
split(s, sep) ==
    IF IndexOf(s, sep) = 0 THEN << s >>
    ELSE << SubSeq(s, 1, IndexOf(s, sep) - 1) >>
             \o split(SubSeq(s, IndexOf(s, sep) + 1, Len(s)), sep)

\* step 2: split a raw pair on the first key/value delimiter
split_pair(raw) ==
    LET i == IndexOf(raw, TEMPORAL_KEY_DELIMITER) IN
    IF i = 0 THEN [ err |-> "MalformedPair", key |-> "", value |-> raw ]
    ELSE IF i = 2 /\ raw[1] \in KeySet
    THEN [ err |-> "", key |-> raw[1], value |-> SubSeq(raw, 3, Len(raw)) ]
    ELSE [ err |-> "UnknownKey", key |-> "", value |-> SubSeq(raw, 1, i - 1) ]

\* steps 1 and 2 for a whole token
parse_pairs(token) ==
    LET raws == split(token, SLACK_INFO_DELIMITER) IN
    [ i \in 1..Len(raws) |-> split_pair(raws[i]) ]

\* step 3: the lookup structure; a key given twice keeps its last value
build_encoder_map(pairs) ==
    [ k \in { pairs[i].key : i \in 1..Len(pairs) } |->
        pairs[CHOOSE i \in 1..Len(pairs) :
                  /\ pairs[i].key = k
                  /\ \A j \in (i + 1)..Len(pairs) : pairs[j].key # k].value ]

DecodeError(kind, arg) ==
    [ ok |-> FALSE, value |-> NoInteraction, err |-> kind, arg |-> arg ]

DecodeOk(d) == [ ok |-> TRUE, value |-> d, err |-> "", arg |-> << >> ]

\* a key read as optional: absent or empty is valid and gives None
get_optional(key, encoder_map) ==
    LET r == get_value(key, encoder_map) IN
    IF r.ok /\ r.value # << >> THEN Some(r.value) ELSE None

RECURSIVE FirstMissing(_, _)
\* the required keys are fetched with get_value, one after the other: the
\* key of the first fetch that fails, "" when every fetch succeeds
FirstMissing(required, encoder_map) ==
    IF required = << >> THEN ""
    ELSE LET r == get_value(required[1], encoder_map) IN
         IF r.ok THEN FirstMissing(Tail(required), r.map) ELSE r.missing

\* step 4, "Execute": W, N, T, Y are required
decode_execute(m) ==
    LET miss == FirstMissing(<< "W", "N", "T", "Y" >>, m) IN
    IF miss # "" THEN DecodeError("KeyMissing", << miss >>)
    ELSE DecodeOk([ type |-> "Execute",
                    namespace |-> get_value("N", m).value,
                    task_queue |-> get_value("T", m).value,
                    workflow_id |-> get_value("W", m).value,
                    workflow_type |-> get_value("Y", m).value,
                    args |-> None ])

\* step 4, "Signal": N, T, S are required, W and R optional
decode_signal(m) ==
    LET miss == FirstMissing(<< "N", "T", "S" >>, m) IN
    IF miss # "" THEN DecodeError("KeyMissing", << miss >>)
    ELSE DecodeOk([ type |-> "Signal",
                    namespace |-> get_value("N", m).value,
                    task_queue |-> get_value("T", m).value,
                    workflow_id |-> get_optional("W", m),
                    run_id |-> get_optional("R", m),
                    signal_name |-> get_value("S", m).value,
                    input |-> None,
                    identity |-> None,
                    request_id |-> None,
                    control |-> None ])

\* step 4, "Query": N, T, Q are required, W, R and U optional; the text of
\* U is kept as the one query argument
decode_query(m) ==
    LET miss == FirstMissing(<< "N", "T", "Q" >>, m) IN
    IF miss # "" THEN DecodeError("KeyMissing", << miss >>)
    ELSE DecodeOk([ type |-> "Query",
                    namespace |-> get_value("N", m).value,
                    task_queue |-> get_value("T", m).value,
                    workflow_id |-> get_optional("W", m),
                    run_id |-> get_optional("R", m),
                    query_type |-> get_value("Q", m).value,
                    query_args |->
                        IF get_optional("U", m) = None THEN None
                        ELSE Some(<< << "Raw", get_value("U", m).value >> >>) ])

\* decode(token)
decode(token) ==
    LET pairs == parse_pairs(token)
        bad == { i \in 1..Len(pairs) : pairs[i].err # "" }
        first == CHOOSE i \in bad : \A j \in bad : i <= j
        m0 == build_encoder_map(pairs)
        e == get_value("E", m0)
    IN  IF bad # { } THEN DecodeError(pairs[first].err, pairs[first].value)
        ELSE IF ~e.ok THEN DecodeError("UnknownVariant", << >>)
        ELSE IF e.value = to_type_string([ type |-> "Execute" ])
        THEN decode_execute(e.map)
        ELSE IF e.value = to_type_string([ type |-> "Signal" ])
        THEN decode_signal(e.map)
        ELSE IF e.value = to_type_string([ type |-> "Query" ])
        THEN decode_query(e.map)
        ELSE DecodeError("UnknownVariant", e.value)

\* ------------------------------------------------------------------------
\* Tokens an inbound event may carry
\* ------------------------------------------------------------------------

\* "E:Signal,N:default,T:tq1"
tok_signal_no_name ==
    << "E", ":", "S", "i", "g", "n", "a", "l", "," >> \o to_kv("N", s_default)
        \o << "," >> \o to_kv("T", s_tq1)

\* "E:Signal,W:wf-123,N:default,T:tq1,R:run-9,S:approve-signal"
tok_signal ==
    tok_signal_no_name \o << "," >> \o to_kv("W", s_wf123)
        \o << "," >> \o to_kv("R", s_run9) \o << "," >> \o to_kv("S", s_approve)

\* "E:Execute,W:wf1,N:ns"
tok_execute_no_queue ==
    << "E", ":", "E", "x", "e", "c", "u", "t", "e", "," >> \o to_kv("W", s_wf1)
        \o << "," >> \o to_kv("N", s_ns)

\* "E:Execute,W:wf1,N:ns,T:tq,Y:Greet,S:ignored"
tok_execute_extra ==
    tok_execute_no_queue \o << "," >> \o to_kv("T", s_tq)
        \o << "," >> \o to_kv("Y", s_Greet)
        \o << ",", "S", ":", "i", "g", "n", "o", "r", "e", "d" >>

\* "E:Query,N:default,T:tq1,U:1"
tok_query_no_type ==
    << "E", ":", "Q", "u", "e", "r", "y", "," >> \o to_kv("N", s_default)
        \o << "," >> \o to_kv("T", s_tq1) \o << ",", "U", ":", "1" >>

\* "E:Bogus,N:ns"
tok_bogus == << "E", ":", "B", "o", "g", "u", "s", "," >> \o to_kv("N", s_ns)

\* "N:ns,T:tq"
tok_no_event == to_kv("N", s_ns) \o << "," >> \o to_kv("T", s_tq)

\* "E:Signal,ZZZ"
tok_malformed == << "E", ":", "S", "i", "g", "n", "a", "l", ",", "Z", "Z", "Z" >>

\* "E:Signal,X:ignored"
tok_unknown_key ==
    << "E", ":", "S", "i", "g", "n", "a", "l", ",", "X", ":", "i", "g", "n", "o", "r", "e", "d" >>

InboundTokens ==
    { tok_signal_no_name, tok_signal, tok_execute_no_queue, tok_execute_extra,
      tok_query_no_type, tok_bogus, tok_no_event, tok_malformed, tok_unknown_key }

\* the keys get_value is called with
LookupKeys == KeySet

\* ------------------------------------------------------------------------
\* The dispatcher's own types (temporal_sdk_helpers lib.rs 187-278)
\* ------------------------------------------------------------------------

HelperExecuteTemporalWorkflow ==
    [ type : { "ExecuteWorkflow" },
      namespace : { s_ns },
      task_queue : { s_tq },
      workflow_id : { s_wf1 },
      workflow_type : { s_Greet },
      args : PayloadOpts ]

TemporalWorkflowExecutionInfo == [ workflow_id : { s_wf123 }, run_id : { s_run9 } ]

HelperSignalTemporal ==
    [ type : { "Signal" },
      namespace : { s_default },
      task_queue : { s_tq1 },
      workflow_execution : { None } \cup { Some(e) : e \in TemporalWorkflowExecutionInfo },
      signal_name : { s_approve },
      input : PayloadOpts,
      identity : { s_id },
      request_id : { s_id },
      control : { s_id } ]

\* enum TemporalInteraction of lib.rs: ExecuteWorkflow and Signal, the Query
\* variant is commented out
HelperTemporalInteraction == HelperExecuteTemporalWorkflow \cup HelperSignalTemporal

\* Uuid::new_v4().to_string()
Uuids == { << "u", "1" >>, << "u", "2" >> }

\* run ids the engine answers a start request with
EngineRunIds == { s_run9, << "r", "2" >> }

\* as_payload: json/plain metadata, the value's text as data
as_payload(value) == [ encoding |-> "json/plain", data |-> json_to_string(value) ]

\* input.map(|inputs| Payloads { payloads: ...as_payload... })
to_payloads(input) ==
    IF input = None THEN None
    ELSE Some([ i \in 1..Len(input[1]) |-> as_payload(input[1][i]) ])

\* build_workflow_execution_request with options = None
build_workflow_execution_request(ns, input, tq, wf_id, wf_type, uuid) ==
    [ namespace |-> ns,
      input |-> to_payloads(input),
      workflow_id |-> wf_id,
      workflow_type |-> wf_type,
      task_queue |-> tq,
      request_id |-> uuid ]

\* TemporalInteractionResponse::new_from_exec_response
new_from_exec_response(exec_response) ==
    [ type |-> "ExecuteWorkflow", run_id |-> exec_response.run_id ]

\* TemporalInteractionResponse::new_from_signal_response
new_from_signal_response(signal_response) == [ type |-> "Signal" ]

NoResponse == [ type |-> "NoResponse" ]

\* what the engine answered to a request: nothing yet, a
\* StartWorkflowExecutionResponse with its run_id, or a failure
NoAnswer == [ state |-> "NoAnswer", run_id |-> << >> ]

Answer(engine_run_id) == [ state |-> "Answered", run_id |-> engine_run_id ]

Failure == [ state |-> "Failed", run_id |-> << >> ]

\* the Result<TemporalInteractionResponse> execute returns
Ok(response) == [ state |-> "Ok", response |-> response ]

Err(what) == [ state |-> "Err", response |-> NoResponse, what |-> what ]

Pending == [ state |-> "Pending", response |-> NoResponse ]

Panicked == [ state |-> "Panicked", response |-> NoResponse ]

\* ------------------------------------------------------------------------
\* The worker of main.rs: the workflow that waits for a signal and the
\* activity that posts the button (main.rs 33-58, 145-231)
\* ------------------------------------------------------------------------

\* WorkerConfigBuilder .namespace("security-engineering")
s_security_engineering ==
    << "s", "e", "c", "u", "r", "i", "t", "y", "-",
       "e", "n", "g", "i", "n", "e", "e", "r", "i", "n", "g" >>

\* WorkerConfigBuilder .task_queue("task_queue")
s_task_queue == << "t", "a", "s", "k", "_", "q", "u", "e", "u", "e" >>

s_run7 == << "r", "u", "n", "-", "7" >>

\* workflow ids are chosen by whoever starts the workflow, run ids by the
\* engine
WorkflowIds == { s_wf123, s_comma }

RunIds == { s_run9, s_run7 }

\* the executions of the workflow this worker can be handed: the activity
\* is scheduled without a task queue of its own, so ActivityInfo carries
\* the namespace and the task queue of the worker
ExecutionInfos ==
    [ namespace : { s_security_engineering },
      task_queue : { s_task_queue },
      workflow_id : WorkflowIds,
      run_id : RunIds ]

NoExecution == [ namespace |-> << >> ]

\* the descriptor naming the signal channel of some other workflow
slack_signal_other_name(activity_info) ==
    [ type |-> "Signal",
      namespace |-> activity_info.namespace,
      task_queue |-> activity_info.task_queue,
      workflow_id |-> Some(activity_info.workflow_id),
      run_id |-> Some(activity_info.run_id),
      signal_name |-> s_approve,
      input |-> None,
      identity |-> None,
      request_id |-> None,
      control |-> None ]

\* test_slack_activity: TemporalInteraction::Signal(SignalTemporal { .. })
\* built from ctx.get_info()
slack_signal(activity_info) ==
    [ type |-> "Signal",
      namespace |-> activity_info.namespace,
      task_queue |-> activity_info.task_queue,
      workflow_id |-> Some(activity_info.workflow_id),
      run_id |-> Some(activity_info.run_id),
      signal_name |-> SIGNAL_NAME,
      input |-> None,
      identity |-> None,
      request_id |-> None,
      control |-> None ]

\* the signal requests other parties send to the engine
SignalRequests ==
    [ namespace : { s_security_engineering },
      workflow_id : WorkflowIds,
      run_id : { None, Some(s_run9) },
      signal_name : { SIGNAL_NAME, s_approve } ]

\* the engine routes a signal request to the open execution of the
\* workflow id in the namespace, and to that run only when a run id is given
Addresses(req, info) ==
    /\ req.namespace = info.namespace
    /\ req.workflow_id = info.workflow_id
    /\ req.run_id = None \/ req.run_id = Some(info.run_id)

\* the sequence without its i-th element
RemoveAt(seq, i) == SubSeq(seq, 1, i - 1) \o SubSeq(seq, i + 1, Len(seq))

\* ------------------------------------------------------------------------
\* State
\* ------------------------------------------------------------------------

VARIABLES
    pc,           \* where the descriptor is on its way: built, encoded,
                  \* decoded, merged (live arguments added); for a token
                  \* that came in: received, handled (decoded), lookup
    interaction,  \* the descriptor the caller holds (moved into the encoder)
    token,        \* the token the encoder returned
    decoded,      \* what the decoder returned for the token
    d_pc,         \* where the running execute() is
    dispatched,   \* the value execute() was called on
    calls,        \* the requests sent to the engine by this execute()
    result,       \* what execute() returned
    encoder_map,  \* the HashMap<KeysToTemporalAction, &str> under extraction
    lookups,      \* the get_value calls made on it, with their results
    w_pc,         \* where test_workflow_fn_that_waits_for_signal is
    a_pc,         \* where the current attempt of test_slack_activity is
    wf_info,      \* the workflow execution that runs
    attempts,     \* attempts of the activity started so far
    action_id,    \* the action id of the button in the message request
    resolution,   \* how the activity resolved for the workflow
    waiting_on,   \* the name of the signal channel the workflow made
    sent,         \* the signal requests the engine received
    inbox,        \* names of the signals the execution holds unconsumed
    received      \* the signal the workflow took from its channel

codecVars == << pc, interaction, token, decoded >>

dispatchVars == << d_pc, dispatched, calls, result >>

lookupVars == << encoder_map, lookups >>

workflowVars == << w_pc, a_pc, wf_info, attempts, action_id, resolution,
                   waiting_on, sent, inbox, received >>

vars == << pc, interaction, token, decoded, d_pc, dispatched, calls, result,
           encoder_map, lookups, w_pc, a_pc, wf_info, attempts, action_id,
           resolution, waiting_on, sent, inbox, received >>

EmptyMap == [ k \in { } |-> << >> ]

NotDecoded == [ ok |-> FALSE, value |-> NoInteraction, err |-> "NotDecoded", arg |-> << >> ]

Init ==
    /\ pc = "start"
    /\ interaction = NoInteraction
    /\ token = << >>
    /\ decoded = NotDecoded
    /\ d_pc = "idle"
    /\ dispatched = NoInteraction
    /\ calls = << >>
    /\ result = Pending
    /\ encoder_map = EmptyMap
    /\ lookups = << >>
    /\ w_pc = "idle"
    /\ a_pc = "none"
    /\ wf_info = NoExecution
    /\ attempts = 0
    /\ action_id = << >>
    /\ resolution = "none"
    /\ waiting_on = << >>
    /\ sent = << >>
    /\ inbox = << >>
    /\ received = << >>

\* The two crates share no state: a run follows the codec of temp.rs or the
\* dispatcher of lib.rs, their steps are not interleaved.

\* a caller constructs a descriptor
New(d) ==
    /\ w_pc = "idle"
    /\ d_pc = "idle"
    /\ pc # "lookup"
    /\ pc' = "built"
    /\ interaction' = d
    /\ token' = << >>
    /\ decoded' = NotDecoded
    /\ UNCHANGED dispatchVars
    /\ UNCHANGED lookupVars
    /\ UNCHANGED workflowVars

\* interaction = interaction.add_data_args(args), before it is encoded
AddDataArgs(args) ==
    /\ pc = "built"
    /\ interaction' = add_data_args(interaction, args)
    /\ UNCHANGED << pc, token, decoded >>
    /\ UNCHANGED dispatchVars
    /\ UNCHANGED lookupVars
    /\ UNCHANGED workflowVars

\* token = interaction.to_slack_string()
ToSlackString ==
    /\ pc = "built"
    /\ token' = to_slack_string(interaction)
    /\ pc' = "encoded"
    /\ UNCHANGED << interaction, decoded >>
    /\ UNCHANGED dispatchVars
    /\ UNCHANGED lookupVars
    /\ UNCHANGED workflowVars

\* an inbound event carries the token back verbatim and it is decoded
Decode ==
    /\ pc = "encoded"
    /\ decoded' = decode(token)
    /\ pc' = "decoded"
    /\ UNCHANGED << interaction, token >>
    /\ UNCHANGED dispatchVars
    /\ UNCHANGED lookupVars
    /\ UNCHANGED workflowVars

\* the live arguments of the inbound event are merged into the decoded
\* descriptor
AddLiveArgs(args) ==
    /\ pc \in { "decoded", "merged" }
    /\ decoded.ok
    /\ decoded' = [ decoded EXCEPT !.value = add_data_args(decoded.value, args) ]
    /\ pc' = "merged"
    /\ UNCHANGED << interaction, token >>
    /\ UNCHANGED dispatchVars
    /\ UNCHANGED lookupVars
    /\ UNCHANGED workflowVars

\* an inbound event carries some token
Receive(tok) ==
    /\ w_pc = "idle"
    /\ d_pc = "idle"
    /\ pc # "lookup"
    /\ pc' = "received"
    /\ interaction' = NoInteraction
    /\ token' = tok
    /\ decoded' = NotDecoded
    /\ UNCHANGED dispatchVars
    /\ UNCHANGED lookupVars
    /\ UNCHANGED workflowVars

\* the token that came in is decoded
DecodeInbound ==
    /\ pc = "received"
    /\ decoded' = decode(token)
    /\ pc' = "handled"
    /\ UNCHANGED << interaction, token >>
    /\ UNCHANGED dispatchVars
    /\ UNCHANGED lookupVars
    /\ UNCHANGED workflowVars

\* steps 1 to 3 of decoding alone: the pairs of the token become the map
BuildEncoderMap ==
    /\ pc = "received"
    /\ \A i \in 1..Len(parse_pairs(token)) : parse_pairs(token)[i].err = ""
    /\ encoder_map' = build_encoder_map(parse_pairs(token))
    /\ lookups' = << >>
    /\ pc' = "lookup"
    /\ UNCHANGED << interaction, token, decoded >>
    /\ UNCHANGED dispatchVars
    /\ UNCHANGED workflowVars

\* key.get_value(&mut encoder_map)
GetValue(key) ==
    /\ pc = "lookup"
    /\ Len(lookups) < MaxLookups
    /\ encoder_map' = get_value(key, encoder_map).map
    /\ lookups' = Append(lookups,
           [ key |-> key,
             ok |-> get_value(key, encoder_map).ok,
             value |-> get_value(key, encoder_map).value,
             missing |-> get_value(key, encoder_map).missing,
             before |-> encoder_map,
             after |-> get_value(key, encoder_map).map ])
    /\ UNCHANGED codecVars
    /\ UNCHANGED dispatchVars
    /\ UNCHANGED workflowVars

\* TemporalInteraction::execute is called; both arms first build a client
Execute(li) ==
    /\ w_pc = "idle"
    /\ pc = "start"
    /\ d_pc \in { "idle", "returned", "panicked" }
    /\ d_pc' = "connecting"
    /\ dispatched' = li
    /\ calls' = << >>
    /\ result' = Pending
    /\ UNCHANGED codecVars
    /\ UNCHANGED lookupVars
    /\ UNCHANGED workflowVars

\* build_temporal_client_without_namespace fails (environment, url or
\* connection): `?` returns the error from execute
ConnectFailed ==
    /\ d_pc = "connecting"
    /\ result' = Err("client")
    /\ d_pc' = "returned"
    /\ UNCHANGED << dispatched, calls >>
    /\ UNCHANGED codecVars
    /\ UNCHANGED lookupVars
    /\ UNCHANGED workflowVars

\* start_temporal_workflow with a client: the request is built and sent
StartWorkflowExecution(uuid) ==
    /\ d_pc = "connecting"
    /\ dispatched.type = "ExecuteWorkflow"
    /\ calls' = Append(calls,
           [ op |-> "start_workflow_execution",
             request |-> build_workflow_execution_request(
                 dispatched.namespace, dispatched.args, dispatched.task_queue,
                 dispatched.workflow_id, dispatched.workflow_type, uuid),
             answer |-> NoAnswer ])
    /\ d_pc' = "awaiting"
    /\ UNCHANGED << dispatched, result >>
    /\ UNCHANGED codecVars
    /\ UNCHANGED lookupVars
    /\ UNCHANGED workflowVars

\* signal_temporal with a client: building the request evaluates
\* `workflow_id: todo!()`, which panics before anything is sent
SignalTodo ==
    /\ d_pc = "connecting"
    /\ dispatched.type = "Signal"
    /\ result' = Panicked
    /\ d_pc' = "panicked"
    /\ UNCHANGED << dispatched, calls >>
    /\ UNCHANGED codecVars
    /\ UNCHANGED lookupVars
    /\ UNCHANGED workflowVars

\* the engine answers the start request; execute returns the response
StartResponse(engine_run_id) ==
    /\ d_pc = "awaiting"
    /\ calls' = [ calls EXCEPT ![Len(calls)].answer = Answer(engine_run_id) ]
    /\ result' = Ok(new_from_exec_response([ run_id |-> engine_run_id ]))
    /\ d_pc' = "returned"
    /\ UNCHANGED dispatched
    /\ UNCHANGED codecVars
    /\ UNCHANGED lookupVars
    /\ UNCHANGED workflowVars

\* the start request fails and execute builds a client again to retry
StartFailed_retries ==
    /\ d_pc = "awaiting"
    /\ calls' = [ calls EXCEPT ![Len(calls)].answer = Failure ]
    /\ d_pc' = "connecting"
    /\ UNCHANGED << dispatched, result >>
    /\ UNCHANGED codecVars
    /\ UNCHANGED lookupVars
    /\ UNCHANGED workflowVars

\* the start request fails: `?` returns the error from execute
StartFailed ==
    /\ d_pc = "awaiting"
    /\ calls' = [ calls EXCEPT ![Len(calls)].answer = Failure ]
    /\ result' = Err("start_workflow_execution")
    /\ d_pc' = "returned"
    /\ UNCHANGED dispatched
    /\ UNCHANGED codecVars
    /\ UNCHANGED lookupVars
    /\ UNCHANGED workflowVars
\* the engine hands an execution of test_workflow_fn_that_waits_for_signal
\* to the worker; the workflow schedules test_slack_activity and awaits it
StartWorkflow(info) ==
    /\ pc = "start"
    /\ d_pc = "idle"
    /\ w_pc = "idle"
    /\ w_pc' = "awaiting_activity"
    /\ wf_info' = info
    /\ UNCHANGED << a_pc, attempts, action_id, resolution, waiting_on, sent,
                    inbox, received >>
    /\ UNCHANGED codecVars
    /\ UNCHANGED dispatchVars
    /\ UNCHANGED lookupVars

\* an attempt of test_slack_activity starts
ActivityStarts ==
    /\ w_pc \in { "awaiting_activity", "waiting", "completed" }
    /\ resolution = "none"
    /\ a_pc = "none"
    /\ a_pc' = "started"
    /\ attempts' = attempts + 1
    /\ UNCHANGED << w_pc, wf_info, action_id, resolution, waiting_on, sent,
                    inbox, received >>
    /\ UNCHANGED codecVars
    /\ UNCHANGED dispatchVars
    /\ UNCHANGED lookupVars

\* std::env::var("SLACK_TOKEN")? returns the error: nothing was built
EnvVarMissing ==
    /\ a_pc = "started"
    /\ a_pc' = "failed"
    /\ UNCHANGED << w_pc, wf_info, attempts, action_id, resolution,
                    waiting_on, sent, inbox, received >>
    /\ UNCHANGED codecVars
    /\ UNCHANGED dispatchVars
    /\ UNCHANGED lookupVars

\* the signal descriptor is built from the activity info, encoded, and the
\* token becomes the action id of the button of the message request
BuildButton ==
    /\ a_pc = "started"
    /\ action_id' = build_slack_info_string(slack_signal(wf_info))
    /\ a_pc' = "posting"
    /\ UNCHANGED << w_pc, wf_info, attempts, resolution, waiting_on, sent,
                    inbox, received >>
    /\ UNCHANGED codecVars
    /\ UNCHANGED dispatchVars
    /\ UNCHANGED lookupVars

\* chat_post_message(..).await? succeeds and the activity returns Ok(())
PostOk ==
    /\ a_pc = "posting"
    /\ a_pc' = "returned_ok"
    /\ UNCHANGED << w_pc, wf_info, attempts, action_id, resolution,
                    waiting_on, sent, inbox, received >>
    /\ UNCHANGED codecVars
    /\ UNCHANGED dispatchVars
    /\ UNCHANGED lookupVars

\* chat_post_message(..).await? returns the error, or the attempt exceeds
\* its start_to_close_timeout
PostFailed ==
    /\ a_pc = "posting"
    /\ a_pc' = "failed"
    /\ UNCHANGED << w_pc, wf_info, attempts, action_id, resolution,
                    waiting_on, sent, inbox, received >>
    /\ UNCHANGED codecVars
    /\ UNCHANGED dispatchVars
    /\ UNCHANGED lookupVars

\* the engine retries the failed attempt
RetryActivity ==
    /\ a_pc = "failed"
    /\ attempts < MaxAttempts
    /\ a_pc' = "none"
    /\ UNCHANGED << w_pc, wf_info, attempts, action_id, resolution,
                    waiting_on, sent, inbox, received >>
    /\ UNCHANGED codecVars
    /\ UNCHANGED dispatchVars
    /\ UNCHANGED lookupVars

\* the engine resolves the activity for the workflow: Completed after
\* Ok(()), Failed when it gives up on the failed attempt
ResolveActivity ==
    /\ a_pc \in { "returned_ok", "failed" }
    /\ resolution' = IF a_pc = "returned_ok" THEN "Completed" ELSE "Failed"
    /\ a_pc' = "resolved"
    /\ UNCHANGED << w_pc, wf_info, attempts, action_id, waiting_on, sent,
                    inbox, received >>
    /\ UNCHANGED codecVars
    /\ UNCHANGED dispatchVars
    /\ UNCHANGED lookupVars

\* a workflow that does not await the activity before it makes the channel
MakeSignalChannel_unawaited ==
    /\ w_pc = "awaiting_activity"
    /\ w_pc' = "waiting"
    /\ waiting_on' = SIGNAL_NAME
    /\ UNCHANGED << a_pc, wf_info, attempts, action_id, resolution, sent,
                    inbox, received >>
    /\ UNCHANGED codecVars
    /\ UNCHANGED dispatchVars
    /\ UNCHANGED lookupVars

\* the await of the activity returns, resp is dropped unread, and
\* ctx.make_signal_channel(SIGNAL_NAME).next() is awaited
MakeSignalChannel ==
    /\ w_pc = "awaiting_activity"
    /\ resolution # "none"
    /\ w_pc' = "waiting"
    /\ waiting_on' = SIGNAL_NAME
    /\ UNCHANGED << a_pc, wf_info, attempts, action_id, resolution, sent,
                    inbox, received >>
    /\ UNCHANGED codecVars
    /\ UNCHANGED dispatchVars
    /\ UNCHANGED lookupVars

\* some party sends a signal request while the execution is open; the
\* engine delivers it when it addresses this execution. A signal that
\* arrives before the channel is made is buffered or lost (kept).
DeliverSignal(req, kept) ==
    /\ w_pc \in { "awaiting_activity", "waiting" }
    /\ Len(sent) < MaxSignals
    /\ sent' = Append(sent, req)
    /\ inbox' = IF Addresses(req, wf_info) /\ (w_pc = "waiting" \/ kept)
                THEN Append(inbox, req.signal_name)
                ELSE inbox
    /\ UNCHANGED << w_pc, a_pc, wf_info, attempts, action_id, resolution,
                    waiting_on, received >>
    /\ UNCHANGED codecVars
    /\ UNCHANGED dispatchVars
    /\ UNCHANGED lookupVars

\* .next().await yields the first signal on the channel; the workflow maps
\* its payloads and returns Ok
ReceiveSignal ==
    /\ w_pc = "waiting"
    /\ \E i \in 1..Len(inbox) :
           /\ inbox[i] = waiting_on
           /\ \A j \in 1..(i - 1) : inbox[j] # waiting_on
           /\ received' = << inbox[i] >>
           /\ inbox' = RemoveAt(inbox, i)
    /\ w_pc' = "completed"
    /\ UNCHANGED << a_pc, wf_info, attempts, action_id, resolution,
                    waiting_on, sent >>
    /\ UNCHANGED codecVars
    /\ UNCHANGED dispatchVars
    /\ UNCHANGED lookupVars

Next ==
    \/ \E d \in TemporalInteraction : New(d)
    \/ \E args \in PayloadOpts : AddDataArgs(args)
    \/ ToSlackString
    \/ Decode
    \/ \E args \in PayloadOpts : AddLiveArgs(args)
    \/ \E tok \in InboundTokens : Receive(tok)
    \/ DecodeInbound
    \/ BuildEncoderMap
    \/ \E key \in LookupKeys : GetValue(key)
    \/ \E li \in HelperTemporalInteraction : Execute(li)
    \/ ConnectFailed
    \/ \E uuid \in Uuids : StartWorkflowExecution(uuid)
    \/ SignalTodo
    \/ \E r \in EngineRunIds : StartResponse(r)
    \/ StartFailed
    \/ \E info \in ExecutionInfos : StartWorkflow(info)
    \/ ActivityStarts
    \/ EnvVarMissing
    \/ BuildButton
    \/ PostOk
    \/ PostFailed
    \/ RetryActivity
    \/ ResolveActivity
    \/ MakeSignalChannel
    \/ \E req \in SignalRequests, kept \in BOOLEAN : DeliverSignal(req, kept)
    \/ ReceiveSignal

Spec == Init /\ [][Next]_vars

\* ------------------------------------------------------------------------
\* Vocabulary of the properties
\* ------------------------------------------------------------------------

HasDelimiter(str) ==
    \E i \in 1..Len(str) : str[i] \in { SLACK_INFO_DELIMITER, TEMPORAL_KEY_DELIMITER }

\* the field values of a descriptor that travel in the token
RoutingValues(d) ==
    CASE d.type = "Execute" ->
           { d.namespace, d.task_queue, d.workflow_id, d.workflow_type }
      [] d.type = "Signal" ->
           { d.namespace, d.task_queue, map_or_empty(d.workflow_id),
             map_or_empty(d.run_id), d.signal_name }
      [] d.type = "Query" ->
           { d.namespace, d.task_queue, map_or_empty(d.workflow_id),
             map_or_empty(d.run_id), d.query_type }

DelimiterFree(d) == \A str \in RoutingValues(d) : ~HasDelimiter(str)

\* the canonical variant names
VariantName(type) ==
    CASE type = "Execute" -> << "E", "x", "e", "c", "u", "t", "e" >>
      [] type = "Signal" -> << "S", "i", "g", "n", "a", "l" >>
      [] type = "Query" -> << "Q", "u", "e", "r", "y" >>

\* the keys each variant defines a value for, in registry order
VariantKeys(type) ==
    CASE type = "Execute" -> << "W", "N", "T", "Y" >>
      [] type = "Signal" -> << "W", "N", "T", "R", "S" >>
      [] type = "Query" -> << "W", "N", "T", "Q", "U" >>

\* the raw pairs of a token
RawPairs(tok) == split(tok, SLACK_INFO_DELIMITER)

\* the key characters of a sequence of pairs
PairKeys(pairs) == [ i \in 1..Len(pairs) |-> pairs[i][1] ]

IsPrefix(pre, str) == Len(pre) <= Len(str) /\ SubSeq(str, 1, Len(pre)) = pre

\* d and e agree in the fields their variant requires
RequiredFieldsEqual(d, e) ==
    /\ d.type = e.type
    /\ d.namespace = e.namespace
    /\ d.task_queue = e.task_queue
    /\ d.type = "Execute" =>
           d.workflow_id = e.workflow_id /\ d.workflow_type = e.workflow_type
    /\ d.type = "Signal" => d.signal_name = e.signal_name
    /\ d.type = "Query" => d.query_type = e.query_type

\* an optional field absent in d is absent in e
AbsentStaysAbsent(d, e) ==
    /\ d.type \in { "Signal", "Query" } =>
           /\ d.workflow_id = None => e.workflow_id = None
           /\ d.run_id = None => e.run_id = None
    /\ d.type = "Execute" => (d.args = None => e.args = None)
    /\ d.type = "Signal" => (d.input = None => e.input = None)
    /\ d.type = "Query" => (d.query_args = None => e.query_args = None)

\* ------------------------------------------------------------------------
\* Properties
\* ------------------------------------------------------------------------

\* C1: round trip. Decoding the token of an Execute, Signal or Query
\* descriptor whose field values contain neither ',' nor ':' succeeds and
\* gives a descriptor equal to the original in all required fields, absent
\* optional fields decoding to absent.
C1_RoundTrip ==
    (pc = "decoded" /\ DelimiterFree(interaction)) =>
        /\ decoded.ok
        /\ RequiredFieldsEqual(interaction, decoded.value)
        /\ AbsentStaysAbsent(interaction, decoded.value)

\* the Execute descriptor and the token of the design document's example
ExampleExecute ==
    [ type |-> "Execute", namespace |-> s_ns, task_queue |-> s_tq,
      workflow_id |-> s_wf1, workflow_type |-> s_Greet, args |-> None ]

ExampleExecuteToken ==
    << "E", ":", "E", "x", "e", "c", "u", "t", "e", ",",
       "W", ":", "w", "f", "1", ",",
       "N", ":", "n", "s", ",",
       "T", ":", "t", "q", ",",
       "Y", ":", "G", "r", "e", "e", "t" >>

\* C2: every Execute descriptor encodes to E:Execute followed by the W, N,
\* T, Y pairs carrying workflow_id, namespace, task_queue and workflow
\* type, in that order and nothing else; the example descriptor encodes to
\* "E:Execute,W:wf1,N:ns,T:tq,Y:Greet".
C2_ExecuteToken ==
    (pc = "encoded" /\ interaction.type = "Execute") =>
        /\ token = << "E", ":", "E", "x", "e", "c", "u", "t", "e" >>
                     \o << ",", "W", ":" >> \o interaction.workflow_id
                     \o << ",", "N", ":" >> \o interaction.namespace
                     \o << ",", "T", ":" >> \o interaction.task_queue
                     \o << ",", "Y", ":" >> \o interaction.workflow_type
        /\ [ interaction EXCEPT !.args = None ] = ExampleExecute =>
               token = ExampleExecuteToken

C2_Witness ==
    /\ pc = "encoded"
    /\ interaction = [ ExampleExecute EXCEPT !.args = Some(<< >>) ]
    /\ token = ExampleExecuteToken

\* the Signal descriptor and the token of the wire-format example
ExampleSignal ==
    [ type |-> "Signal", namespace |-> s_default, task_queue |-> s_tq1,
      workflow_id |-> Some(s_wf123), run_id |-> Some(s_run9),
      signal_name |-> s_approve, input |-> None, identity |-> None,
      request_id |-> None, control |-> None ]

ExampleSignalToken ==
    << "E", ":", "S", "i", "g", "n", "a", "l", ",",
       "W", ":", "w", "f", "-", "1", "2", "3", ",",
       "N", ":", "d", "e", "f", "a", "u", "l", "t", ",",
       "T", ":", "t", "q", "1", ",",
       "R", ":", "r", "u", "n", "-", "9", ",",
       "S", ":", "a", "p", "p", "r", "o", "v", "e", "-", "s", "i", "g", "n", "a", "l" >>

\* C3: every Signal descriptor encodes to E:Signal followed by the W, N, T,
\* R, S pairs carrying workflow_id, namespace, task_queue, run_id and
\* signal_name (an absent workflow_id or run_id as the empty string), in
\* that order and nothing else; the example descriptor encodes to
\* "E:Signal,W:wf-123,N:default,T:tq1,R:run-9,S:approve-signal".
C3_SignalToken ==
    (pc = "encoded" /\ interaction.type = "Signal") =>
        /\ token = << "E", ":", "S", "i", "g", "n", "a", "l" >>
                     \o << ",", "W", ":" >>
                     \o (IF interaction.workflow_id = None THEN << >>
                         ELSE interaction.workflow_id[1])
                     \o << ",", "N", ":" >> \o interaction.namespace
                     \o << ",", "T", ":" >> \o interaction.task_queue
                     \o << ",", "R", ":" >>
                     \o (IF interaction.run_id = None THEN << >>
                         ELSE interaction.run_id[1])
                     \o << ",", "S", ":" >> \o interaction.signal_name
        /\ interaction = ExampleSignal => token = ExampleSignalToken

C3_Witness ==
    /\ pc = "encoded"
    /\ interaction = ExampleSignal
    /\ token = ExampleSignalToken

\* C4: for a descriptor of any variant the encoder appends, after the E
\* pair, one pair for every key the variant defines a value for, in
\* registry order and no key twice; the token of a Query descriptor has
\* the pairs keyed W, N, T, Q, U after E:Query.
C4_PairPerDefinedKey ==
    pc = "encoded" =>
        /\ PairKeys(kv_pairs(interaction)) = << "E" >> \o VariantKeys(interaction.type)
        /\ DelimiterFree(interaction) =>
               PairKeys(RawPairs(token)) = << "E" >> \o VariantKeys(interaction.type)

C6_AbsentOptionalEmitted ==
    (pc = "encoded" /\ interaction.type \in { "Signal", "Query" }) =>
        /\ interaction.workflow_id = None =>
               \E i \in 1..Len(RawPairs(token)) : RawPairs(token)[i] = << "W", ":" >>
        /\ (interaction.type = "Signal" /\ interaction.run_id = None) =>
               \E i \in 1..Len(RawPairs(token)) : RawPairs(token)[i] = << "R", ":" >>

\* C8: the token does not depend on the out-of-band payload: for an
\* Execute or Signal descriptor d and every argument list a,
\* encode(d.add_data_args(a)) = encode(d), and descriptors that differ only
\* in args / input (and in Signal's identity, request_id, control) have the
\* same token.
C8_TokenIgnoresPayload ==
    (pc = "encoded" /\ interaction.type \in { "Execute", "Signal" }) =>
        /\ \A a \in PayloadOpts :
               to_slack_string(add_data_args(interaction, a)) = token
        /\ interaction.type = "Execute" =>
               \A a \in PayloadOpts :
                   to_slack_string([ interaction EXCEPT !.args = a ]) = token
        /\ interaction.type = "Signal" =>
               \A a \in PayloadOpts, i, r, c \in OptStrings :
                   to_slack_string([ interaction EXCEPT !.input = a, !.identity = i,
                                         !.request_id = r, !.control = c ]) = token

C8_Witness ==
    /\ pc = "encoded"
    /\ interaction.type = "Signal"
    /\ interaction.input # None
    /\ Len(interaction.input[1]) = 2
    /\ interaction.identity # None
    /\ token = to_slack_string([ interaction EXCEPT !.input = None, !.identity = None ])

\* C9: the U pair of a Query descriptor's token carries only the text of
\* the first element of query_args, the empty string when query_args is
\* None or an empty list, and Query descriptors whose query_args share the
\* first element have the same token.
C9_QueryArgsFirstOnly ==
    (pc = "encoded" /\ interaction.type = "Query") =>
        /\ \E i \in 1..Len(RawPairs(token)) :
               RawPairs(token)[i] = << "U", ":" >> \o first_arg_text(interaction.query_args)
        /\ \A q \in PayloadOpts :
               first_arg_text(q) = first_arg_text(interaction.query_args) =>
                   to_slack_string([ interaction EXCEPT !.query_args = q ]) = token

\* the external call that matches a variant
ExternalCall(type) ==
    CASE type = "ExecuteWorkflow" -> "start_workflow_execution"
      [] type = "Signal" -> "signal_workflow_execution"
      [] type = "Query" -> "query_workflow"

\* the outcome that matches a variant and the engine's answer
Outcome(type, answer) ==
    CASE type = "ExecuteWorkflow" -> [ type |-> "ExecuteWorkflow", run_id |-> answer.run_id ]
      [] type = "Signal" -> [ type |-> "Signal" ]
      [] type = "Query" -> [ type |-> "Query" ]

ClientFailed == result.state = "Err" /\ result.what = "client"

\* C10: execute maps the variant it is called on to exactly one external
\* call of the matching kind (ExecuteWorkflow to start, Signal to signal),
\* and when that call succeeds it returns the matching outcome, Started
\* with the run_id of the engine's response or Signaled.
C10_OneMatchingCall ==
    /\ (d_pc \in { "returned", "panicked" } /\ ~ClientFailed) =>
           /\ Len(calls) = 1
           /\ calls[1].op = ExternalCall(dispatched.type)
    /\ (Len(calls) = 1 /\ calls[1].answer.state = "Answered") =>
           /\ d_pc = "returned"
           /\ result.state = "Ok"
           /\ result.response = Outcome(dispatched.type, calls[1].answer)

\* C11: when building the client or the start / signal call fails, execute
\* returns that failure as an error, with no outcome value, and sends
\* nothing further: no request after a client failure, none after the
\* failed one, at most one request per invocation of execute.
C11_FailureSurfacedNoRetry ==
    /\ Len(calls) <= 1
    /\ (d_pc = "returned" /\ Len(calls) = 0) =>
           /\ result.state = "Err"
           /\ result.what = "client"
           /\ result.response = NoResponse
    /\ (Len(calls) = 1 /\ calls[1].answer.state = "Failed") =>
           /\ d_pc = "returned"
           /\ result.state = "Err"
           /\ result.what = calls[1].op
           /\ result.response = NoResponse
    /\ result.state = "Err" =>
           /\ d_pc = "returned"
           /\ \A i \in 1..Len(calls) : calls[i].answer.state = "Failed"

C11_Witness ==
    /\ d_pc = "returned"
    /\ Len(calls) = 1
    /\ calls[1].op = "start_workflow_execution"
    /\ calls[1].answer.state = "Failed"
    /\ result.state = "Err"

\* the keys a variant requires when its token is decoded
RequiredKeys(type) ==
    CASE type = "Execute" -> { "W", "N", "T", "Y" }
      [] type = "Signal" -> { "N", "T", "S" }
      [] type = "Query" -> { "N", "T", "Q" }

\* every raw pair of the token is a registry key, ':' and a value
WellFormed(tok) ==
    \A i \in 1..Len(RawPairs(tok)) :
        /\ Len(RawPairs(tok)[i]) >= 2
        /\ RawPairs(tok)[i][1] \in KeySet
        /\ RawPairs(tok)[i][2] = ":"

\* the keys that occur in a well-formed token
TokenKeys(tok) == { RawPairs(tok)[i][1] : i \in 1..Len(RawPairs(tok)) }

\* the token's event type is the variant's name
HasEventType(tok, type) ==
    \E i \in 1..Len(RawPairs(tok)) :
        RawPairs(tok)[i] = << "E", ":" >> \o VariantName(type)

\* C12: decoding a token that lacks a key its variant requires fails with
\* KeyMissing naming a key that is missing, and no descriptor or default is
\* produced: "E:Signal,N:default,T:tq1" fails with KeyMissing(S). At the
\* key level, get_value on a map without the key returns an error naming
\* that key and leaves the map unchanged.
C12_MissingKeyIsAnError ==
    /\ (pc = "handled"
        /\ token = << "E", ":", "S", "i", "g", "n", "a", "l", ",",
                      "N", ":", "d", "e", "f", "a", "u", "l", "t", ",",
                      "T", ":", "t", "q", "1" >>) =>
           /\ ~decoded.ok
           /\ decoded.err = "KeyMissing"
           /\ decoded.arg = << "S" >>
           /\ decoded.value = NoInteraction
    /\ \A type \in { "Execute", "Signal", "Query" } :
           (/\ pc = "handled"
            /\ WellFormed(token)
            /\ HasEventType(token, type)
            /\ RequiredKeys(type) \ TokenKeys(token) # { }) =>
               /\ ~decoded.ok
               /\ decoded.err = "KeyMissing"
               /\ Len(decoded.arg) = 1
               /\ decoded.arg[1] \in RequiredKeys(type) \ TokenKeys(token)
               /\ decoded.value = NoInteraction
    /\ \A i \in 1..Len(lookups) :
           lookups[i].key \notin DOMAIN lookups[i].before =>
               /\ ~lookups[i].ok
               /\ lookups[i].missing = lookups[i].key
               /\ lookups[i].after = lookups[i].before

C12_Witness ==
    /\ pc = "handled"
    /\ HasEventType(token, "Signal")
    /\ TokenKeys(token) = { "E", "N", "T" }
    /\ decoded.err = "KeyMissing"
    /\ decoded.arg = << "S" >>

\* C13: the lookup is one-shot. Over the get_value calls made on one map,
\* a call for a key the map holds returns its value and removes exactly
\* that entry, all other entries unchanged; every later call for the same
\* key fails; so each key's value is returned at most once.
C13_OneShotLookup ==
    /\ \A i \in 1..Len(lookups) :
           lookups[i].key \in DOMAIN lookups[i].before =>
               /\ lookups[i].ok
               /\ lookups[i].value = lookups[i].before[lookups[i].key]
               /\ DOMAIN lookups[i].after = (DOMAIN lookups[i].before) \ { lookups[i].key }
               /\ \A k \in DOMAIN lookups[i].after :
                      lookups[i].after[k] = lookups[i].before[k]
    /\ \A i \in 1..Len(lookups) :
           /\ i > 1 => lookups[i].before = lookups[i - 1].after
           /\ i = Len(lookups) => encoder_map = lookups[i].after
    /\ \A i, j \in 1..Len(lookups) :
           (i < j /\ lookups[i].key = lookups[j].key) => ~lookups[j].ok
    /\ \A k \in KeySet :
           Cardinality({ i \in 1..Len(lookups) : lookups[i].key = k /\ lookups[i].ok }) <= 1

C13_Witness ==
    /\ Len(lookups) = 3
    /\ lookups[1].key = "N"
    /\ lookups[1].ok
    /\ lookups[1].value = s_default
    /\ lookups[2].key = "T"
    /\ lookups[2].ok
    /\ lookups[3].key = "N"
    /\ ~lookups[3].ok
    /\ DOMAIN encoder_map = { "E" }

\* the field of a variant that add_data_args replaces
PayloadField(type) ==
    CASE type = "Execute" -> "args"
      [] type = "Signal" -> "input"
      [] type = "Query" -> "query_args"

\* add_data_args(d, a) is d with the payload field a and nothing else changed
ReplacesOnlyPayload(d, a) ==
    LET r == add_data_args(d, a) IN
    /\ r.type = d.type
    /\ DOMAIN r = DOMAIN d
    /\ r[PayloadField(d.type)] = a
    /\ \A f \in (DOMAIN d) \ { PayloadField(d.type) } : r[f] = d[f]

\* C14: add_data_args(d, a) returns a descriptor of the variant of d whose
\* payload field (args, input, query_args) is a, whatever payload d held
\* before, and whose every other field is that of d. Checked for every
\* descriptor a run holds, with and without an earlier payload, and every a.
C14_AddDataArgsReplacesPayloadOnly ==
    /\ interaction # NoInteraction =>
           \A a \in PayloadOpts : ReplacesOnlyPayload(interaction, a)
    /\ decoded.ok =>
           \A a \in PayloadOpts : ReplacesOnlyPayload(decoded.value, a)

C14_Witness ==
    /\ pc = "built"
    /\ interaction.type = "Signal"
    /\ interaction.input # None
    /\ Len(interaction.input[1]) = MaxArgs
    /\ interaction.identity # None
    /\ interaction.run_id # None

\* the signal request that dispatching a Signal descriptor sends (for a
\* descriptor that names its workflow)
signal_request(d) ==
    [ namespace |-> d.namespace,
      workflow_id |-> d.workflow_id[1],
      run_id |-> d.run_id,
      signal_name |-> d.signal_name ]

DeliveredOnChannel ==
    { i \in 1..Len(sent) :
          Addresses(sent[i], wf_info) /\ sent[i].signal_name = SIGNAL_NAME }

\* C16: the workflow waits on the "test-signal" channel only after the
\* activity has resolved; once the activity has resolved it starts to wait
\* whether the resolution is Completed or Failed; it completes only after
\* it received one signal of that name, which was delivered to this
\* execution; while no such signal has been delivered it has not completed.
C16_WaitsAfterActivityCompletesOnSignal ==
    /\ w_pc \in { "waiting", "completed" } =>
           /\ resolution \in { "Completed", "Failed" }
           /\ a_pc = "resolved"
           /\ waiting_on = << "t", "e", "s", "t", "-", "s", "i", "g", "n", "a", "l" >>
    /\ (w_pc = "awaiting_activity" /\ resolution \in { "Completed", "Failed" }) =>
           ENABLED MakeSignalChannel
    /\ w_pc = "completed" =>
           /\ received = << waiting_on >>
           /\ DeliveredOnChannel # { }
           /\ Cardinality({ i \in 1..Len(inbox) : inbox[i] = waiting_on }) + 1
                  <= Cardinality(DeliveredOnChannel)
    /\ w_pc # "completed" => received = << >>
    /\ DeliveredOnChannel = { } => w_pc # "completed"

C16_Witness ==
    /\ w_pc = "completed"
    /\ resolution = "Failed"
    /\ action_id = << >>
    /\ received = << SIGNAL_NAME >>
    /\ Len(sent) = 2
    /\ sent[1].signal_name = s_approve
    /\ Addresses(sent[1], wf_info)

====
